---- MODULE Spec2Model ----
(***************************************************************************)
(* Multiple decap placement environment (rl4co/envs/mdpp.py, MDPPEnv).     *)
(* State machine of one environment object: construction, instance         *)
(* generation, reset, placement steps and the terminal reward.             *)
(* Scores are fixed-point numbers in tenths (4 stands for 0.4).            *)
(***************************************************************************)
EXTENDS FiniteSets, Integers, Sequences, TLC

\* ---------------------------------------------------------------- bounds
MaxSize == 2
MaxProbesMax == 3
MaxKeepoutMax == 2
MaxBatch == 1
MaxDecaps == 2
RewardBatch == 2

\* per-probe outputs of the decap simulation, in tenths: 0.4, 0.9, -1.5
ScoreVals == {4, 9, -15}
\* the scores 0.4 and 0.9 alone, for whole batches
BatchScoreVals == {4, 9}

RewardTypes == {"minmax", "meansum", "maxmin"}

\* ---------------------------------------------------------------- state
VARIABLES pc, cfg, batched, td, keepouts, actions, sim, sim_calls, reward, err

vars == <<pc, cfg, batched, td, keepouts, actions, sim, sim_calls, reward, err>>

NoCfg == [size |-> 0, num_probes_min |-> 0, num_probes_max |-> 0,
          num_keepout_min |-> 0, num_keepout_max |-> 0, reward_type |-> ""]

N == cfg.size * cfg.size
Cells == 0 .. (N - 1)

\* ---------------------------------------------------------------- helpers
\* length of seq[:p] for a sequence of n elements (Python slice semantics)
SliceLen(n, p) == IF p >= 0 THEN (IF p < n THEN p ELSE n)
                  ELSE (IF n + p > 0 THEN n + p ELSE 0)

\* index sets that torch.randperm(n)[:p] can scatter
RandpermPrefix(n, p) == {S \in SUBSET (0 .. (n - 1)) : Cardinality(S) = SliceLen(n, p)}

\* variant of Randint with the upper bound included
RandintInclusive(low, high) == low .. high

\* torch.randint(low, high): integers of the half-open range [low, high)
Randint(low, high) == low .. (high - 1)

\* ---------------------------------------------------------------- __init__
\* variant of Construct without the reward_type assertion
ConstructNoAssert(c) ==
    /\ pc = "new"
    /\ cfg' = c
    /\ pc' = "constructed"
    /\ UNCHANGED <<batched, td, keepouts, actions, sim, sim_calls, reward, err>>

Construct(c) ==
    /\ pc = "new"
    /\ cfg' = c
    /\ IF c.reward_type \in {"minmax", "meansum"}
         THEN pc' = "constructed" /\ err' = err
         ELSE pc' = "failed" /\ err' = "AssertionError"
    /\ UNCHANGED <<batched, td, keepouts, actions, sim, sim_calls, reward>>

Configs ==
    [size : 1 .. MaxSize,
     num_probes_min : 0 .. MaxProbesMax,
     num_probes_max : 1 .. MaxProbesMax,
     num_keepout_min : 0 .. MaxKeepoutMax,
     num_keepout_max : 1 .. MaxKeepoutMax,
     reward_type : RewardTypes]

\* ---------------------------------------------------------------- generate_data
\* one row of the batch: (probes[i], available[i], keepouts[i])
GenRows(n, c) ==
    { [probe |-> P, action_mask |-> ((0 .. (n - 1)) \ {seed}) \ (P \cup K), keepout |-> K] :
        seed \in 0 .. (n - 1),
        P \in UNION { RandpermPrefix(n, p) : p \in Randint(c.num_probes_min, c.num_probes_max) },
        K \in UNION { RandpermPrefix(n, k) : k \in Randint(c.num_keepout_min, c.num_keepout_max) } }

RangeOk(c) == /\ c.num_probes_min < c.num_probes_max
              /\ c.num_keepout_min < c.num_keepout_max

\* batch_size = [] is the unbatched call: one instance, leading axis stripped
BatchShapes == {<<>>} \cup { <<b>> : b \in 1 .. MaxBatch }
Bs(batch_size) == IF Len(batch_size) > 0 THEN batch_size[1] ELSE 1

\* x.squeeze(0) / x.unsqueeze(0) on the batch axis
Squeeze0(rows) == rows[1]
Unsqueeze0(x) == <<x>>
Emit(isBatched, rows) == IF isBatched THEN rows ELSE Squeeze0(rows)
Batch(isBatched, x) == IF isBatched THEN x ELSE Unsqueeze0(x)

GenerateDataOf(shapes) ==
    /\ pc = "constructed"
    /\ IF RangeOk(cfg)
         THEN \E batch_size \in shapes :
                \E rows \in [1 .. Bs(batch_size) -> GenRows(N, cfg)] :
                  /\ batched' = (Len(batch_size) > 0)
                  /\ td' = Emit(Len(batch_size) > 0,
                                [j \in DOMAIN rows |->
                                   [probe |-> rows[j].probe, action_mask |-> rows[j].action_mask]])
                  /\ keepouts' = [j \in DOMAIN rows |-> rows[j].keepout]
                  /\ pc' = "generated"
                  /\ err' = err
         ELSE /\ pc' = "failed"
              /\ err' = "RuntimeError"
              /\ UNCHANGED <<batched, td, keepouts>>
    /\ UNCHANGED <<cfg, actions, sim, sim_calls, reward>>

GenerateData == GenerateDataOf(BatchShapes)

\* ---------------------------------------------------------------- _reset
\* DPPEnv._reset: keeps probe and action_mask of the given instances, i = 0
DPPReset(rows) ==
    [j \in DOMAIN rows |->
        [probe |-> rows[j].probe, action_mask |-> rows[j].action_mask, i |-> 0]]

\* torch.logical_or of two boolean masks held as the sets of their true cells
LogicalOr(a, b) == a \cup b

ResetRows(rows) ==
    [j \in DOMAIN rows |->
        [DPPReset(rows)[j] EXCEPT !.action_mask =
            LogicalOr(DPPReset(rows)[j].action_mask, DPPReset(rows)[j].probe)]]

\* _reset(td): instances handed in by the caller
Reset ==
    /\ pc = "generated"
    /\ td' = Emit(batched, ResetRows(Batch(batched, td)))
    /\ actions' = Emit(batched, [j \in DOMAIN Batch(batched, td) |-> <<>>])
    /\ pc' = "running"
    /\ UNCHANGED <<cfg, batched, keepouts, sim, sim_calls, reward, err>>

\* _reset(None, batch_size): the base reset draws the instances itself
ResetFreshOf(shapes) ==
    /\ pc = "constructed"
    /\ RangeOk(cfg)
    /\ \E batch_size \in shapes :
         \E rows \in [1 .. Bs(batch_size) -> GenRows(N, cfg)] :
           /\ batched' = (Len(batch_size) > 0)
           /\ td' = Emit(Len(batch_size) > 0,
                         ResetRows([j \in DOMAIN rows |->
                            [probe |-> rows[j].probe, action_mask |-> rows[j].action_mask]]))
           /\ keepouts' = [j \in DOMAIN rows |-> rows[j].keepout]
           /\ actions' = Emit(Len(batch_size) > 0, [j \in DOMAIN rows |-> <<>>])
    /\ pc' = "running"
    /\ UNCHANGED <<cfg, sim, sim_calls, reward, err>>

ResetFresh == ResetFreshOf(BatchShapes)

\* ---------------------------------------------------------------- _step
max_decaps == MaxDecaps

\* DPPEnv._step: the chosen cell leaves the mask, i advances
DPPStep(row, a) ==
    [row EXCEPT !.action_mask = row.action_mask \ {a}, !.i = row.i + 1]

Step ==
    /\ pc = "running"
    /\ \E act \in [DOMAIN Batch(batched, td) -> Cells] :
         /\ \A j \in DOMAIN act : act[j] \in Batch(batched, td)[j].action_mask
         /\ td' = Emit(batched, [j \in DOMAIN act |-> DPPStep(Batch(batched, td)[j], act[j])])
         /\ actions' = Emit(batched,
                [j \in DOMAIN act |-> Append(Batch(batched, actions)[j], act[j])])
         /\ pc' = IF \A j \in DOMAIN act : Batch(batched, td)[j].i + 1 >= max_decaps
                    THEN "done" ELSE "running"
    /\ UNCHANGED <<cfg, batched, keepouts, sim, sim_calls, reward, err>>

\* ---------------------------------------------------------------- get_reward
\* _decap_simulator(probe, actions): the black-box score of one probe cell
\* for the placement sequence of instance j, read off the response table sc
DecapSimulator(sc, j, probe, acts) == sc[<<j, probe>>]

\* the simulator answers equal questions equally
Deterministic(sc, rows, acts) ==
    \A j, k \in DOMAIN rows : acts[j] = acts[k] =>
        \A c \in rows[j].probe \cap rows[k].probe : sc[<<j, c>>] = sc[<<k, c>>]

SetMin(S) == CHOOSE x \in S : \A y \in S : x <= y

\* torch.nonzero(mask): the true cells in ascending order
RECURSIVE NonZero(_)
NonZero(S) == IF S = {} THEN <<>> ELSE <<SetMin(S)>> \o NonZero(S \ {SetMin(S)})

\* a float written into an int64 tensor is truncated toward zero
\* (score in tenths, result in whole units)
ToInt64(s) == IF s >= 0 THEN s \div 10 ELSE -((-s) \div 10)

SeqMin(q) == SetMin({q[x] : x \in DOMAIN q})

\* _single_env_reward; value is in tenths
SingleEnvReward(row, acts, j, sc, rt) ==
    LET list_probe == NonZero(row.probe)
        n == Len(list_probe)
        calls == [q \in 1 .. n |-> [inst |-> j, probe |-> list_probe[q], actions |-> acts]]
        scores == [q \in 1 .. n |-> ToInt64(DecapSimulator(sc, j, list_probe[q], acts))]
    IN  IF n = 1
          \* squeeze() leaves a 0-d tensor, which cannot be iterated
          THEN [calls |-> <<>>, value |-> 0, err |-> "TypeError"]
        ELSE IF n = 0
          \* min()/mean() of an empty tensor
          THEN [calls |-> <<>>, value |-> 0, err |-> "RuntimeError"]
        ELSE IF rt = "minmax"
          THEN [calls |-> calls, value |-> 10 * SeqMin(scores), err |-> ""]
          \* mean() is not defined for an int64 tensor
          ELSE [calls |-> calls, value |-> 0, err |-> "RuntimeError"]

\* the list comprehension over zip(td, actions), in batch order; an
\* exception leaves the comprehension at the instance that raised it
RECURSIVE RewardLoop(_, _, _, _, _, _, _)
RewardLoop(rows, acts, sc, rt, j, calls, out) ==
    IF j > Len(rows) THEN [calls |-> calls, reward |-> out, err |-> ""]
    ELSE LET r == SingleEnvReward(rows[j], acts[j], j, sc, rt)
         IN  IF r.err # ""
               THEN [calls |-> calls \o r.calls, reward |-> <<>>, err |-> r.err]
               ELSE RewardLoop(rows, acts, sc, rt, j + 1, calls \o r.calls,
                               Append(out, r.value))

GetRewardOf(scoreVals) ==
    /\ pc = "done"
    /\ LET rows == Batch(batched, td)
           acts == Batch(batched, actions)
       IN \E sc \in [ UNION { { <<j, c>> : c \in rows[j].probe } : j \in DOMAIN rows } -> scoreVals ] :
            /\ Deterministic(sc, rows, acts)
            /\ LET r == RewardLoop(rows, acts, sc, cfg.reward_type, 1, <<>>, <<>>)
               IN /\ sim' = sc
                  /\ sim_calls' = r.calls
                  /\ reward' = r.reward
                  /\ err' = r.err
                  /\ pc' = IF r.err = "" THEN "rewarded" ELSE "reward_failed"
    /\ UNCHANGED <<cfg, batched, td, keepouts, actions>>

GetReward == GetRewardOf(ScoreVals)

Init ==
    /\ pc = "new"
    /\ cfg = NoCfg
    /\ batched = FALSE
    /\ td = <<>>
    /\ keepouts = <<>>
    /\ actions = <<>>
    /\ sim = <<>>
    /\ sim_calls = <<>>
    /\ reward = <<>>
    /\ err = ""

Next ==
    \/ \E c \in Configs : Construct(c)
    \/ GenerateData
    \/ Reset
    \/ ResetFresh
    \/ Step
    \/ GetReward

Spec == Init /\ [][Next]_vars

\* instance generation on its own: every probe range and reward_type, the
\* widest keepout range, the unbatched call and a batch of one (the rows of
\* a batch are drawn independently of each other)
GenConfigs ==
    { c \in Configs : c.num_keepout_min = 0 /\ c.num_keepout_max = MaxKeepoutMax }

NextGen ==
    \/ \E c \in GenConfigs : Construct(c)
    \/ GenerateDataOf({<<>>, <<1>>})

SpecGen == Init /\ [][NextGen]_vars

\* the terminal reward of whole batches: a constructed environment on the
\* 2 x 2 grid with one or two probes per instance and no keepout cell
RewardConfigs ==
    { c \in Configs : /\ c.size = 2
                      /\ c.num_probes_min = 1 /\ c.num_probes_max = 3
                      /\ c.num_keepout_min = 0 /\ c.num_keepout_max = 1
                      /\ c.reward_type \in {"minmax", "meansum"} }

InitReward ==
    /\ pc = "constructed"
    /\ cfg \in RewardConfigs
    /\ batched = FALSE
    /\ td = <<>>
    /\ keepouts = <<>>
    /\ actions = <<>>
    /\ sim = <<>>
    /\ sim_calls = <<>>
    /\ reward = <<>>
    /\ err = ""

NextReward ==
    \/ ResetFreshOf({<<RewardBatch>>})
    \/ Step
    \/ GetRewardOf(BatchScoreVals)

SpecReward == InitReward /\ [][NextReward]_vars

\* ================================================================ properties
Recognised == {"minmax", "meansum"}
HasRows == pc \in {"generated", "running", "done", "rewarded", "reward_failed"}
AfterReset == pc \in {"running", "done", "rewarded", "reward_failed"}
Scored == pc \in {"rewarded", "reward_failed"}
Rows == Batch(batched, td)
Acts == Batch(batched, actions)
Placed(j) == {Acts[j][x] : x \in DOMAIN Acts[j]}

RECURSIVE SetSum(_, _)
SetSum(f, D) == IF D = {} THEN 0
                ELSE LET d == CHOOSE x \in D : TRUE IN f[d] + SetSum(f, D \ {d})

\* C1: after reset no probe cell is selectable: action_mask is false at
\* every cell where probe is true.
C1_ProbeCellsMaskedAfterReset ==
    AfterReset => \A j \in DOMAIN Rows : Rows[j].action_mask \cap Rows[j].probe = {}

\* C2: from reset on, action_mask is false at every probe cell, keepout cell
\* and already selected cell, and a step never adds a cell to the mask.
C2_MaskExcludesAndShrinks ==
    [][ /\ AfterReset' =>
             \A j \in DOMAIN Rows' :
                Rows'[j].action_mask \cap (Rows'[j].probe \cup keepouts'[j] \cup Placed(j)') = {}
        /\ (AfterReset /\ AfterReset') =>
             \A j \in DOMAIN Rows : Rows'[j].action_mask \subseteq Rows[j].action_mask ]_vars

\* per-probe simulator scores of instance j, in tenths
ProbeScores(j) == [c \in Rows[j].probe |-> sim[<<j, c>>]]

\* C3: with at least two probes the returned reward is the minimum of the
\* per-probe scores under "minmax" and their mean under "meansum"
\* ([0.4, 0.9] gives 0.4 and 0.65).
C3_RewardIsMinOrMean ==
    (Scored /\ \A j \in DOMAIN Rows : Cardinality(Rows[j].probe) >= 2) =>
        /\ pc = "rewarded"
        /\ \A j \in DOMAIN Rows :
             IF cfg.reward_type = "minmax"
               THEN reward[j] = SetMin({ProbeScores(j)[c] : c \in Rows[j].probe})
               ELSE reward[j] * Cardinality(Rows[j].probe) =
                       SetSum(ProbeScores(j), Rows[j].probe)

C5_ProbeKeepoutDisjoint ==
    pc = "generated" => \A j \in DOMAIN Rows : Rows[j].probe \cap keepouts[j] = {}

\* C6: with num_keepout_min = 0 and num_keepout_max = 1 an instance has no
\* keepout cell and, right after reset, action_mask = NOT probe.
C6_ResetMaskIsNotProbe ==
    (pc = "running" /\ cfg.num_keepout_min = 0 /\ cfg.num_keepout_max = 1
        /\ \A j \in DOMAIN Rows : Rows[j].i = 0) =>
        \A j \in DOMAIN Rows :
            /\ keepouts[j] = {}
            /\ Rows[j].action_mask = Cells \ Rows[j].probe

\* C7: an unrecognised reward_type fails in the constructor; no instance is
\* ever generated by an environment whose reward_type is unrecognised.
C7_BadRewardTypeFailsFast ==
    /\ pc \notin {"new", "failed"} => cfg.reward_type \in Recognised
    /\ (pc # "new" /\ cfg.reward_type \notin Recognised) =>
          (pc = "failed" /\ err = "AssertionError" /\ td = <<>> /\ sim_calls = <<>>)

\* a constructor call with an unrecognised reward_type has been rejected
C7_Witness ==
    pc = "failed" /\ cfg.reward_type = "maxmin" /\ err = "AssertionError"

\* the reward an unbatched get_reward call returns for instance j alone
Unbatched(j) ==
    RewardLoop(Batch(FALSE, Rows[j]), Batch(FALSE, Acts[j]),
               [x \in {<<1, c>> : c \in Rows[j].probe} |-> sim[<<j, x[2]>>]],
               cfg.reward_type, 1, <<>>, <<>>)

\* C8: get_reward on B instances returns B rewards in batch order, and the
\* unbatched call on one instance returns a singleton with the same value
\* (instances carry at least one probe, as the data model requires).
C8_BatchShapeAndEquivalence ==
    (Scored /\ \A j \in DOMAIN Rows : Rows[j].probe # {}) =>
        /\ Len(reward) = Len(Rows)
        /\ \A j \in DOMAIN Rows :
              /\ Len(Unbatched(j).reward) = 1
              /\ Unbatched(j).reward[1] = reward[j]

\* the calls one get_reward makes when every (instance, probe) pair is
\* scored once, in batch order, with the instance's whole placement sequence
RECURSIVE AllCalls(_)
AllCalls(j) ==
    IF j > Len(Rows) THEN <<>>
    ELSE [q \in 1 .. Cardinality(Rows[j].probe) |->
            [inst |-> j, probe |-> NonZero(Rows[j].probe)[q], actions |-> Acts[j]]]
         \o AllCalls(j + 1)

\* C9: one get_reward call invokes the simulator exactly once per
\* (instance, probe cell) pair, in batch order, with the full placement
\* sequence; reset and step never invoke it.
C9_SimulatorCalledOncePerProbe ==
    /\ Scored => sim_calls = AllCalls(1)
    /\ ~Scored => sim_calls = <<>>

\* C10: for instances with exactly one probe the reward computation
\* completes, calls the simulator once and returns that probe's score.
C10_SingleProbeReward ==
    (Scored /\ \A j \in DOMAIN Rows : Cardinality(Rows[j].probe) = 1) =>
        /\ pc = "rewarded"
        /\ Len(sim_calls) = Len(Rows)
        /\ \A j \in DOMAIN Rows : \A c \in Rows[j].probe : reward[j] = sim[<<j, c>>]
====
